---- MODULE Spec2Model ----
(***************************************************************************)
(* A model of akasabi's indexer (src/indexer.rs): create_index reads the   *)
(* events of a JMdict XML document one at a time and assembles one tantivy *)
(* document per closed `entry` element, which it hands to the index        *)
(* writer; commit_index commits at the end.                                *)
(*                                                                         *)
(* Texts are sequences of characters, a character being a one-element      *)
(* token: "1", "a", ... for ASCII, "NI", "HO", "N" for the hiragana        *)
(* ni, ho, n and "KANJI_NICHI", "KANJI_HON" for the two kanji of the test  *)
(* document.                                                               *)
(***************************************************************************)
EXTENDS Integers, Sequences, FiniteSets, TLC

VARIABLES
    file,           \* the input file, as the fragments written to it
    doc,            \* the events the XML reader emits for the input file
    pos,            \* index in doc of the event the next parser.next() returns
    pc,             \* where create_index is: create, loop, commit, ok, err, panic, hang
    why,            \* what ended the run early (the failing call), "" otherwise
    glosses,        \* ParseContext.glosses
    poses,          \* ParseContext.poses
    fields,         \* ParseContext.fields
    current_entry,  \* ParseContext.current_entry: None or Some(document)
    count,          \* ParseContext.count
    calls,          \* the calls made on the index writer, in order
    added,          \* the documents the index writer accepted, in order
    printed,        \* the progress lines printed, in order
    returned,       \* the strings extract_next_string returned to the test, in order
    first           \* what an earlier run over the same events ended with

vars == <<file, doc, pos, pc, why, glosses, poses, fields, current_entry, count,
          calls, added, printed, returned, first>>

----------------------------------------------------------------------------
(* Events of the XML reader (xml::reader::XmlEvent).                        *)

Ev(t, n, s) == [type |-> t, name |-> n, text |-> s]
StartEl(n) == Ev("StartElement", n, <<>>)
EndEl(n) == Ev("EndElement", n, <<>>)
Chars(s) == Ev("Characters", "", s)
StartDocument == Ev("StartDocument", "", <<>>)
Whitespace == Ev("Whitespace", "", <<>>)
CData(s) == Ev("CData", "", s)
EndDocument == Ev("EndDocument", "", <<>>)
\* parser.next() returning Err(_): a read or syntax error of the source
SourceError == Ev("Error", "", <<>>)

\* parser.next(): the reader keeps returning its final result (EndDocument
\* or the error) once it has produced it.
ParserNext(d, p) == IF p <= Len(d) THEN d[p] ELSE d[Len(d)]

----------------------------------------------------------------------------
(* Pure helpers.                                                           *)

\* The tags at whose EndElement extract_next_string stops.
LeafTags == {"keb", "reb", "gloss", "pos", "field", "ent_seq"}

\* A loop that stops at the EndElement of any tag.
RECURSIVE ExtractLoopToAnyEnd(_, _, _)
ExtractLoopToAnyEnd(d, p, buf) ==
    LET e == ParserNext(d, p) IN
    CASE e.type = "Error" -> [status |-> "panic", buf |-> buf, pos |-> p]
      [] e.type = "EndDocument" -> [status |-> "hang", buf |-> buf, pos |-> p]
      [] e.type = "Characters" -> ExtractLoopToAnyEnd(d, p + 1, buf \o e.text)
      [] e.type = "EndElement" -> [status |-> "ok", buf |-> buf, pos |-> p + 1]
      [] OTHER -> ExtractLoopToAnyEnd(d, p + 1, buf)

\* extract_next_string's loop from position p with buf accumulated so far:
\* the text, the position after the last event read, and how the loop ends:
\* "ok" (break), "panic" (unwrap of an Err), "hang" (EndDocument is returned
\* again and again and matches the `_` arm).
RECURSIVE ExtractLoop(_, _, _)
ExtractLoop(d, p, buf) ==
    LET e == ParserNext(d, p) IN
    CASE e.type = "Error" -> [status |-> "panic", buf |-> buf, pos |-> p]
      [] e.type = "EndDocument" -> [status |-> "hang", buf |-> buf, pos |-> p]
      [] e.type = "Characters" -> ExtractLoop(d, p + 1, buf \o e.text)
      [] e.type = "EndElement" /\ e.name \in LeafTags ->
            [status |-> "ok", buf |-> buf, pos |-> p + 1]
      [] OTHER -> ExtractLoop(d, p + 1, buf)

extract_next_string(d, p) == ExtractLoop(d, p, <<>>)

\* A join that drops the blank of the separator.
RECURSIVE JoinWithoutBlank(_, _)
JoinWithoutBlank(ss, sep) ==
    IF ss = <<>> THEN <<>>
    ELSE IF Len(ss) = 1 THEN ss[1]
    ELSE ss[1] \o <<sep[1]>> \o JoinWithoutBlank(Tail(ss), sep)

\* [String]::join(sep)
RECURSIVE Join(_, _)
Join(ss, sep) ==
    IF ss = <<>> THEN <<>>
    ELSE IF Len(ss) = 1 THEN ss[1]
    ELSE ss[1] \o sep \o Join(Tail(ss), sep)

\* The separator of handle_end_element's joins: "; "
Separator == <<";", " ">>

Digits == {"0", "1", "2", "3", "4", "5", "6", "7", "8", "9"}
DigitVal(c) ==
    CASE c = "0" -> 0 [] c = "1" -> 1 [] c = "2" -> 2 [] c = "3" -> 3
      [] c = "4" -> 4 [] c = "5" -> 5 [] c = "6" -> 6 [] c = "7" -> 7
      [] c = "8" -> 8 [] c = "9" -> 9

RECURSIVE DigitsVal(_, _)
DigitsVal(s, acc) ==
    IF s = <<>> THEN acc ELSE DigitsVal(Tail(s), 10 * acc + DigitVal(s[1]))

\* str::parse::<i64>(): an optional sign, then one or more ASCII digits and
\* nothing else (no surrounding white space). The texts of the model have at
\* most two digits, so the overflow error of parse is out of its reach.
parse_i64(s) ==
    LET signed == s # <<>> /\ s[1] \in {"+", "-"}
        ds == IF signed THEN Tail(s) ELSE s
        good == ds # <<>> /\ \A i \in 1..Len(ds) : ds[i] \in Digits
    IN  IF good
        THEN [ok |-> TRUE,
              val |-> IF signed /\ s[1] = "-" THEN 0 - DigitsVal(ds, 0)
                      ELSE DigitsVal(ds, 0)]
        ELSE [ok |-> FALSE, val |-> 0]

\* wana_kana's to_romaji on the characters of the model: a hiragana becomes
\* its latin syllable, every other character is kept.
RomajiOf(c) ==
    CASE c = "NI" -> <<"n", "i">>
      [] c = "HO" -> <<"h", "o">>
      [] c = "N" -> <<"n">>
      [] OTHER -> <<c>>

RECURSIVE to_romaji(_)
to_romaji(s) == IF s = <<>> THEN <<>> ELSE RomajiOf(s[1]) \o to_romaji(Tail(s))

----------------------------------------------------------------------------
(* Documents of the index (TantivyDocument): the values added under each   *)
(* field of the schema, in the order they were added.                      *)

\* tantivy::doc!()
EmptyDocument ==
    [id |-> <<>>, word |-> <<>>, reading |-> <<>>, reading_romaji |-> <<>>,
     meaning |-> <<>>, pos |-> <<>>, field |-> <<>>]

\* Option<TantivyDocument>
None == [some |-> FALSE, doc |-> EmptyDocument]
Some(d) == [some |-> TRUE, doc |-> d]

\* TantivyDocument::add_i64 / add_text: one more value under the field f
add_value(d, f, v) == [d EXCEPT ![f] = Append(@, v)]

----------------------------------------------------------------------------
(* The input file: what the XML reader emits for it. A document starts    *)
(* with StartDocument and its root element and ends with EndDocument once  *)
(* the root is closed, or with the reader's error at any point before      *)
(* that. The body of the root is built of fragments: the start or the end  *)
(* of an element (an end only of the innermost open element), a whole leaf *)
(* element with its text, or an event without a name.                      *)

Open(n) == [ev |-> <<StartEl(n)>>, push |-> n, pop |-> ""]
Close(n) == [ev |-> <<EndEl(n)>>, push |-> "", pop |-> n]
Flat(evs) == [ev |-> evs, push |-> "", pop |-> ""]
Leaf(n, s) == Flat(<<StartEl(n), Chars(s), EndEl(n)>>)

\* The file b with the fragment f after it; open is the stack of the open
\* elements, n the number of fragments.
Extend(b, f) ==
    [b EXCEPT !.ev = @ \o f.ev,
              !.n = @ + 1,
              !.open = IF f.push # "" THEN Append(@, f.push)
                       ELSE IF f.pop # "" THEN SubSeq(@, 1, Len(@) - 1)
                       ELSE @]

Admissible(b, f) ==
    f.pop = "" \/ (b.open # <<>> /\ b.open[Len(b.open)] = f.pop)

\* The EndElements of the open elements, innermost first.
RECURSIVE Closing(_)
Closing(open) ==
    IF open = <<>> THEN <<>>
    ELSE <<EndEl(open[Len(open)])>> \o Closing(SubSeq(open, 1, Len(open) - 1))

\* The events of the well-formed file of b (every open element is closed),
\* and those of the file that ends, or cannot be read further, after b.
Whole(b) ==
    <<StartDocument, StartEl(b.root)>> \o b.ev \o Closing(b.open)
        \o <<EndEl(b.root), EndDocument>>
Broken(b) == <<StartDocument, StartEl(b.root)>> \o b.ev \o <<SourceError>>

\* The fragments of the files of the model.
Alphabet ==
    {Open(n) : n \in {"entry", "sense", "k_ele", "keb", "gloss"}}
    \cup {Close(n) : n \in {"entry", "sense", "k_ele", "keb", "gloss"}}
    \cup {Leaf("ent_seq", <<"1">>), Leaf("ent_seq", <<"x">>),
          Leaf("keb", <<"a">>), Leaf("keb", <<"b">>), Leaf("reb", <<"NI">>),
          Leaf("gloss", <<"g">>), Leaf("gloss", <<"h">>),
          Leaf("pos", <<"n">>), Leaf("field", <<"f">>),
          Flat(<<Chars(<<"c">>)>>), Flat(<<CData(<<"d">>)>>)}

\* The largest number of fragments of a file built from Alphabet.
MaxFrags == 3

EmptyFile == [ev |-> <<>>, open |-> <<>>, root |-> "JMdict", n |-> 0, name |-> ""]

\* A file given as a whole.
Named(nm, root, evs) ==
    [ev |-> evs, open |-> <<>>, root |-> root, n |-> 0, name |-> nm]

\* The document of test_extract_next_string: its root is the entry.
TestFile ==
    Named("test", "entry",
        <<Whitespace,
          StartEl("ent_seq"), Chars(<<"1">>), EndEl("ent_seq"), Whitespace,
          StartEl("k_ele"), Whitespace,
          StartEl("keb"), Chars(<<"KANJI_NICHI", "KANJI_HON">>), EndEl("keb"),
          Whitespace, EndEl("k_ele"), Whitespace,
          StartEl("r_ele"), Whitespace,
          StartEl("reb"), Chars(<<"NI", "HO", "N">>), EndEl("reb"),
          Whitespace, EndEl("r_ele"), Whitespace,
          StartEl("sense"), Whitespace,
          StartEl("gloss"), Chars(<<"J", "a", "p", "a", "n">>), EndEl("gloss"),
          Whitespace,
          StartEl("gloss"),
          Chars(<<"J", "a", "p", "a", "n", "e", "s", "e">>), EndEl("gloss"),
          Whitespace,
          StartEl("pos"), Chars(<<"n", "o", "u", "n">>), EndEl("pos"),
          Whitespace,
          StartEl("pos"),
          Chars(<<"p", "r", "o", "p", "e", "r", " ", "n", "o", "u", "n">>),
          EndEl("pos"), Whitespace,
          StartEl("field"), Chars(<<"p", "l", "a", "c", "e">>), EndEl("field"),
          Whitespace,
          StartEl("field"), Chars(<<"c", "o", "u", "n", "t", "r", "y">>),
          EndEl("field"), Whitespace,
          EndEl("sense"), Whitespace>>)

\* A dictionary of two entries: the first with two forms around a reading,
\* a sense of two glosses and a part of speech, a third form and a sense
\* without any leaf; the second with one sense.
TwoEntriesFile ==
    Named("two_entries", "JMdict",
        <<StartEl("entry"),
          StartEl("ent_seq"), Chars(<<"1">>), EndEl("ent_seq"),
          StartEl("k_ele"),
          StartEl("keb"), Chars(<<"a">>), EndEl("keb"),
          EndEl("k_ele"),
          StartEl("reb"), Chars(<<"NI">>), EndEl("reb"),
          StartEl("keb"), Chars(<<"b">>), EndEl("keb"),
          StartEl("sense"),
          StartEl("gloss"), Chars(<<"g">>), EndEl("gloss"),
          StartEl("gloss"), Chars(<<"h">>), EndEl("gloss"),
          StartEl("pos"), Chars(<<"n">>), EndEl("pos"),
          EndEl("sense"),
          StartEl("keb"), Chars(<<"a">>), EndEl("keb"),
          StartEl("sense"), EndEl("sense"),
          EndEl("entry"),
          StartEl("entry"),
          StartEl("ent_seq"), Chars(<<"2">>), EndEl("ent_seq"),
          StartEl("reb"), Chars(<<"HO">>), CData(<<"d">>), Chars(<<"N">>),
          EndEl("reb"),
          StartEl("sense"),
          StartEl("field"), Chars(<<"f">>), EndEl("field"),
          EndEl("sense"),
          EndEl("entry")>>)

\* An entry with a gloss outside any sense, and a sense with a part of
\* speech inside a keb.
StrayGlossFile ==
    Named("stray_gloss", "JMdict",
        <<StartEl("entry"),
          StartEl("gloss"), Chars(<<"g">>), EndEl("gloss"),
          StartEl("keb"),
          StartEl("sense"),
          StartEl("pos"), Chars(<<"n">>), EndEl("pos"),
          EndEl("sense"),
          EndEl("keb"),
          EndEl("entry")>>)

NamedFiles == {TestFile, TwoEntriesFile, StrayGlossFile}

\* fetch_jmdict writes the file that create_index reads: one more fragment,
\* or one of the named files as a whole.
WriteFragment ==
    /\ pc = "create"
    /\ file.name = ""
    /\ file.n < MaxFrags
    /\ \E f \in {g \in Alphabet : Admissible(file, g)} : file' = Extend(file, f)
    /\ UNCHANGED <<doc, pos, pc, why, glosses, poses, fields, current_entry,
                   count, calls, added, printed, returned, first>>

WriteNamedFile ==
    /\ pc = "create"
    /\ file = EmptyFile
    /\ \E b \in NamedFiles : file' = b
    /\ UNCHANGED <<doc, pos, pc, why, glosses, poses, fields, current_entry,
                   count, calls, added, printed, returned, first>>

\* The number of entries of the long dictionary.
LongFileEntries == 2001

\* A dictionary of n entries without any leaf.
LongFile(n) ==
    Named("long", "JMdict",
          [i \in 1..(2 * n) |->
              IF i % 2 = 1 THEN StartEl("entry") ELSE EndEl("entry")])

\* fetch_jmdict writes a dictionary of a thousand entries, or the long one.
WriteLongFile ==
    /\ pc = "create"
    /\ file = EmptyFile
    /\ \E n \in {1000, LongFileEntries} : file' = LongFile(n)
    /\ UNCHANGED <<doc, pos, pc, why, glosses, poses, fields, current_entry,
                   count, calls, added, printed, returned, first>>

----------------------------------------------------------------------------
(* The run: create_index, the loop of parse_xml_and_index, commit_index.   *)

\* No earlier run.
NoRun == [ran |-> FALSE, pc |-> "", count |-> 0, added |-> <<>>]

\* A context that keeps the count of the context old.
parse_context_keeps_count(old) ==
    [glosses |-> <<>>, poses |-> <<>>, fields |-> <<>>,
     current_entry |-> Some(EmptyDocument), count |-> old.count]

\* The ParseContext that parse_xml_and_index builds, whatever context old
\* an earlier call has left behind.
parse_context(old) ==
    [glosses |-> <<>>, poses |-> <<>>, fields |-> <<>>,
     current_entry |-> Some(EmptyDocument), count |-> 0]

\* The context parse_xml_and_index starts from: current_entry is Some(doc!())
ContextInit ==
    /\ glosses = <<>>
    /\ poses = <<>>
    /\ fields = <<>>
    /\ current_entry = Some(EmptyDocument)
    /\ count = 0

\* The run ends here without returning: a panic, or a loop that never ends.
Diverge(status, reason, p) ==
    /\ pc' = status
    /\ why' = reason
    /\ pos' = p
    /\ UNCHANGED <<file, doc, glosses, poses, fields, current_entry, count,
                   calls, added, printed, returned, first>>

\* A create_index that does not clear the index.
create_index_without_clear(failing, d) ==
    /\ pc = "create"
    /\ doc' = IF failing = "none" THEN d ELSE doc
    /\ pc' = IF failing = "none" THEN "loop" ELSE "err"
    /\ why' = IF failing = "none" THEN "" ELSE failing
    /\ UNCHANGED <<file, pos, glosses, poses, fields, current_entry, count,
                   calls, added, printed, returned, first>>

\* create_index up to the call of parse_xml_and_index. failing names the
\* call that returns an error ("none": all succeed); d is what the reader
\* that create_parser opens on the file will emit.
create_index(failing, d) ==
    /\ pc = "create"
    /\ doc' = IF failing = "none" THEN d ELSE doc
    /\ calls' = IF failing \in {"setup_tokenizer", "writer"} THEN calls
                ELSE Append(calls, "delete_all_documents")
    /\ pc' = IF failing = "none" THEN "loop" ELSE "err"
    /\ why' = IF failing = "none" THEN "" ELSE failing
    /\ UNCHANGED <<file, pos, glosses, poses, fields, current_entry, count,
                   added, printed, returned, first>>

\* An "entry" arm that allocates a Record only when none is in flight.
start_entry_keeps_record(p) ==
    /\ current_entry' = IF current_entry.some THEN current_entry
                        ELSE Some(EmptyDocument)
    /\ pos' = p
    /\ UNCHANGED <<file, doc, pc, why, glosses, poses, fields, count, calls, added,
                   printed, returned, first>>

\* The "entry" arm of handle_start_element; p is the position of the reader
\* after the StartElement (likewise below).
start_entry(p) ==
    /\ current_entry' = Some(EmptyDocument)
    /\ pos' = p
    /\ UNCHANGED <<file, doc, pc, why, glosses, poses, fields, count, calls, added,
                   printed, returned, first>>

\* A "sense" arm that leaves the buffers as they are.
start_sense_without_clear(p) ==
    /\ pos' = p
    /\ UNCHANGED <<file, doc, pc, why, glosses, poses, fields, current_entry,
                   count, calls, added, printed, returned, first>>

\* The "sense" arm.
start_sense(p) ==
    /\ glosses' = <<>>
    /\ poses' = <<>>
    /\ fields' = <<>>
    /\ pos' = p
    /\ UNCHANGED <<file, doc, pc, why, current_entry, count, calls, added, printed,
                   returned, first>>

\* The "ent_seq" arm: the text is read first, then current_entry is
\* unwrapped, then the text is parsed and the parse unwrapped.
start_ent_seq(p) ==
    LET r == extract_next_string(doc, p) IN
    IF r.status # "ok" THEN Diverge(r.status, "extract_next_string", r.pos)
    ELSE IF ~current_entry.some THEN Diverge("panic", "current_entry", r.pos)
    ELSE IF ~parse_i64(r.buf).ok THEN Diverge("panic", "parse", r.pos)
    ELSE /\ current_entry' =
                Some(add_value(current_entry.doc, "id", parse_i64(r.buf).val))
         /\ pos' = r.pos
         /\ UNCHANGED <<file, doc, pc, why, glosses, poses, fields, count,
                        calls, added, printed, returned, first>>

\* A "keb" arm that keeps only the last form.
start_keb_overwrites(p) ==
    LET r == extract_next_string(doc, p) IN
    IF r.status # "ok" THEN Diverge(r.status, "extract_next_string", r.pos)
    ELSE IF ~current_entry.some THEN Diverge("panic", "current_entry", r.pos)
    ELSE /\ current_entry' = Some([current_entry.doc EXCEPT !.word = <<r.buf>>])
         /\ pos' = r.pos
         /\ UNCHANGED <<file, doc, pc, why, glosses, poses, fields, count,
                        calls, added, printed, returned, first>>

\* The "keb" arm.
start_keb(p) ==
    LET r == extract_next_string(doc, p) IN
    IF r.status # "ok" THEN Diverge(r.status, "extract_next_string", r.pos)
    ELSE IF ~current_entry.some THEN Diverge("panic", "current_entry", r.pos)
    ELSE /\ current_entry' = Some(add_value(current_entry.doc, "word", r.buf))
         /\ pos' = r.pos
         /\ UNCHANGED <<file, doc, pc, why, glosses, poses, fields, count,
                        calls, added, printed, returned, first>>

\* A "reb" arm that stores the reading as its own romanization.
start_reb_not_romanized(p) ==
    LET r == extract_next_string(doc, p) IN
    IF r.status # "ok" THEN Diverge(r.status, "extract_next_string", r.pos)
    ELSE IF ~current_entry.some THEN Diverge("panic", "current_entry", r.pos)
    ELSE /\ current_entry' =
                Some(add_value(add_value(current_entry.doc, "reading", r.buf),
                               "reading_romaji", r.buf))
         /\ pos' = r.pos
         /\ UNCHANGED <<file, doc, pc, why, glosses, poses, fields, count,
                        calls, added, printed, returned, first>>

\* The "reb" arm.
start_reb(p) ==
    LET r == extract_next_string(doc, p) IN
    IF r.status # "ok" THEN Diverge(r.status, "extract_next_string", r.pos)
    ELSE IF ~current_entry.some THEN Diverge("panic", "current_entry", r.pos)
    ELSE /\ current_entry' =
                Some(add_value(add_value(current_entry.doc, "reading", r.buf),
                               "reading_romaji", to_romaji(r.buf)))
         /\ pos' = r.pos
         /\ UNCHANGED <<file, doc, pc, why, glosses, poses, fields, count,
                        calls, added, printed, returned, first>>

\* The "gloss" arm.
start_gloss(p) ==
    LET r == extract_next_string(doc, p) IN
    IF r.status # "ok" THEN Diverge(r.status, "extract_next_string", r.pos)
    ELSE /\ glosses' = Append(glosses, r.buf)
         /\ pos' = r.pos
         /\ UNCHANGED <<file, doc, pc, why, poses, fields, current_entry, count,
                        calls, added, printed, returned, first>>

\* The "pos" arm.
start_pos(p) ==
    LET r == extract_next_string(doc, p) IN
    IF r.status # "ok" THEN Diverge(r.status, "extract_next_string", r.pos)
    ELSE /\ poses' = Append(poses, r.buf)
         /\ pos' = r.pos
         /\ UNCHANGED <<file, doc, pc, why, glosses, fields, current_entry, count,
                        calls, added, printed, returned, first>>

\* The "field" arm.
start_field(p) ==
    LET r == extract_next_string(doc, p) IN
    IF r.status # "ok" THEN Diverge(r.status, "extract_next_string", r.pos)
    ELSE /\ fields' = Append(fields, r.buf)
         /\ pos' = r.pos
         /\ UNCHANGED <<file, doc, pc, why, glosses, poses, current_entry, count,
                        calls, added, printed, returned, first>>

\* A handle_start_element that reads the text of every other element too,
\* and drops it.
handle_start_element_reads_others(name, p) ==
    CASE name = "entry" -> start_entry(p)
      [] name = "sense" -> start_sense(p)
      [] name = "ent_seq" -> start_ent_seq(p)
      [] name = "keb" -> start_keb(p)
      [] name = "reb" -> start_reb(p)
      [] name = "gloss" -> start_gloss(p)
      [] name = "pos" -> start_pos(p)
      [] name = "field" -> start_field(p)
      [] OTHER ->
            LET r == extract_next_string(doc, p) IN
            IF r.status # "ok" THEN Diverge(r.status, "extract_next_string", r.pos)
            ELSE /\ pos' = r.pos
                 /\ UNCHANGED <<file, doc, pc, why, glosses, poses, fields,
                                current_entry, count, calls, added, printed,
                                returned, first>>

\* handle_start_element for the StartElement just read.
handle_start_element(name, p) ==
    CASE name = "entry" -> start_entry(p)
      [] name = "sense" -> start_sense(p)
      [] name = "ent_seq" -> start_ent_seq(p)
      [] name = "keb" -> start_keb(p)
      [] name = "reb" -> start_reb(p)
      [] name = "gloss" -> start_gloss(p)
      [] name = "pos" -> start_pos(p)
      [] name = "field" -> start_field(p)
      [] OTHER ->
            /\ pos' = p
            /\ UNCHANGED <<file, doc, pc, why, glosses, poses, fields, current_entry,
                           count, calls, added, printed, returned, first>>

\* The number of entries between two progress lines.
ProgressEvery == 1000

\* An "entry" arm that adds a copy of the Record and keeps it in flight.
end_entry_keeps_record(p, add_ok) ==
    IF ~current_entry.some THEN Diverge("panic", "current_entry", p)
    ELSE /\ current_entry' = current_entry
         /\ calls' = Append(calls, "add_document")
         /\ pos' = p
         /\ IF add_ok
            THEN /\ added' = Append(added, current_entry.doc)
                 /\ count' = count + 1
                 /\ printed' = IF (count + 1) % ProgressEvery = 0
                               THEN Append(printed, <<"read", count + 1>>)
                               ELSE printed
                 /\ UNCHANGED <<pc, why>>
            ELSE /\ pc' = "err"
                 /\ why' = "add_document"
                 /\ UNCHANGED <<added, count, printed>>
         /\ UNCHANGED <<file, doc, glosses, poses, fields, returned, first>>

\* An "entry" arm that counts the entry before it adds the document.
end_entry_counts_first(p, add_ok) ==
    IF ~current_entry.some THEN Diverge("panic", "current_entry", p)
    ELSE /\ current_entry' = None
         /\ calls' = Append(calls, "add_document")
         /\ pos' = p
         /\ count' = count + 1
         /\ printed' = IF (count + 1) % ProgressEvery = 0
                       THEN Append(printed, <<"read", count + 1>>)
                       ELSE printed
         /\ IF add_ok
            THEN /\ added' = Append(added, current_entry.doc)
                 /\ UNCHANGED <<pc, why>>
            ELSE /\ pc' = "err"
                 /\ why' = "add_document"
                 /\ UNCHANGED added
         /\ UNCHANGED <<file, doc, glosses, poses, fields, returned, first>>

\* An "entry" arm that drops a Record without meanings or without readings.
end_entry_drops_incomplete(p, add_ok) ==
    IF ~current_entry.some THEN Diverge("panic", "current_entry", p)
    ELSE IF current_entry.doc.meaning = <<>> \/ current_entry.doc.reading = <<>>
    THEN /\ current_entry' = None
         /\ pos' = p
         /\ UNCHANGED <<file, doc, pc, why, glosses, poses, fields, count, calls,
                        added, printed, returned, first>>
    ELSE /\ current_entry' = None
         /\ calls' = Append(calls, "add_document")
         /\ pos' = p
         /\ IF add_ok
            THEN /\ added' = Append(added, current_entry.doc)
                 /\ count' = count + 1
                 /\ printed' = IF (count + 1) % ProgressEvery = 0
                               THEN Append(printed, <<"read", count + 1>>)
                               ELSE printed
                 /\ UNCHANGED <<pc, why>>
            ELSE /\ pc' = "err"
                 /\ why' = "add_document"
                 /\ UNCHANGED <<added, count, printed>>
         /\ UNCHANGED <<file, doc, glosses, poses, fields, returned, first>>

\* An "entry" arm that looks at the count before it increments it.
end_entry_prints_before_increment(p, add_ok) ==
    IF ~current_entry.some THEN Diverge("panic", "current_entry", p)
    ELSE /\ current_entry' = None
         /\ calls' = Append(calls, "add_document")
         /\ pos' = p
         /\ IF add_ok
            THEN /\ added' = Append(added, current_entry.doc)
                 /\ count' = count + 1
                 /\ printed' = IF count % ProgressEvery = 0
                               THEN Append(printed, <<"read", count>>)
                               ELSE printed
                 /\ UNCHANGED <<pc, why>>
            ELSE /\ pc' = "err"
                 /\ why' = "add_document"
                 /\ UNCHANGED <<added, count, printed>>
         /\ UNCHANGED <<file, doc, glosses, poses, fields, returned, first>>

\* The "entry" arm of handle_end_element; add_ok says whether add_document
\* succeeds. take() empties current_entry before the document is added.
end_entry(p, add_ok) ==
    IF ~current_entry.some THEN Diverge("panic", "current_entry", p)
    ELSE /\ current_entry' = None
         /\ calls' = Append(calls, "add_document")
         /\ pos' = p
         /\ IF add_ok
            THEN /\ added' = Append(added, current_entry.doc)
                 /\ count' = count + 1
                 /\ printed' = IF (count + 1) % ProgressEvery = 0
                               THEN Append(printed, <<"read", count + 1>>)
                               ELSE printed
                 /\ UNCHANGED <<pc, why>>
            ELSE /\ pc' = "err"
                 /\ why' = "add_document"
                 /\ UNCHANGED <<added, count, printed>>
         /\ UNCHANGED <<file, doc, glosses, poses, fields, returned, first>>

\* A "sense" arm that adds a part of speech only when the sense has one.
end_sense_skips_empty(p) ==
    /\ current_entry' =
          IF current_entry.some
          THEN Some(add_value(
                        IF poses = <<>>
                        THEN add_value(current_entry.doc,
                                       "meaning", Join(glosses, Separator))
                        ELSE add_value(add_value(current_entry.doc,
                                       "meaning", Join(glosses, Separator)),
                                       "pos", Join(poses, Separator)),
                        "field", Join(fields, Separator)))
          ELSE current_entry
    /\ glosses' = <<>>
    /\ poses' = <<>>
    /\ fields' = <<>>
    /\ pos' = p
    /\ UNCHANGED <<file, doc, pc, why, count, calls, added, printed, returned, first>>

\* A "sense" arm that joins with ", ".
end_sense_joins_with_comma(p) ==
    /\ current_entry' =
          IF current_entry.some
          THEN Some(add_value(add_value(add_value(current_entry.doc,
                        "meaning", Join(glosses, <<",", " ">>)),
                        "pos", Join(poses, <<",", " ">>)),
                        "field", Join(fields, <<",", " ">>)))
          ELSE current_entry
    /\ glosses' = <<>>
    /\ poses' = <<>>
    /\ fields' = <<>>
    /\ pos' = p
    /\ UNCHANGED <<file, doc, pc, why, count, calls, added, printed, returned, first>>

\* The "sense" arm of handle_end_element, which returns true, and the
\* clearing of the three buffers that parse_xml_and_index does then.
end_sense(p) ==
    /\ current_entry' =
          IF current_entry.some
          THEN Some(add_value(add_value(add_value(current_entry.doc,
                        "meaning", Join(glosses, Separator)),
                        "pos", Join(poses, Separator)),
                        "field", Join(fields, Separator)))
          ELSE current_entry
    /\ glosses' = <<>>
    /\ poses' = <<>>
    /\ fields' = <<>>
    /\ pos' = p
    /\ UNCHANGED <<file, doc, pc, why, count, calls, added, printed, returned, first>>

\* handle_end_element for the EndElement just read, with what the loop does
\* with its result.
handle_end_element(name, p, add_ok) ==
    CASE name = "entry" -> end_entry(p, add_ok)
      [] name = "sense" -> end_sense(p)
      [] OTHER ->
            /\ pos' = p
            /\ UNCHANGED <<file, doc, pc, why, glosses, poses, fields, current_entry,
                           count, calls, added, printed, returned, first>>

\* One turn of the loop of parse_xml_and_index on a StartElement.
StartElementStep ==
    /\ pc = "loop"
    /\ ParserNext(doc, pos).type = "StartElement"
    /\ handle_start_element(ParserNext(doc, pos).name, pos + 1)

\* One turn of the loop on an EndElement.
EndElementStep ==
    /\ pc = "loop"
    /\ ParserNext(doc, pos).type = "EndElement"
    /\ \E add_ok \in BOOLEAN :
          handle_end_element(ParserNext(doc, pos).name, pos + 1, add_ok)

\* EndDocument: break, and parse_xml_and_index returns Ok(count).
EndDocumentStep ==
    /\ pc = "loop"
    /\ ParserNext(doc, pos).type = "EndDocument"
    /\ pc' = "commit"
    /\ pos' = pos + 1
    /\ UNCHANGED <<file, doc, why, glosses, poses, fields, current_entry, count,
                   calls, added, printed, returned, first>>

\* Any other event (the `_` arm): nothing but the read.
OtherEventStep ==
    /\ pc = "loop"
    /\ ParserNext(doc, pos).type \notin
          {"StartElement", "EndElement", "EndDocument", "Error"}
    /\ pos' = pos + 1
    /\ UNCHANGED <<file, doc, pc, why, glosses, poses, fields, current_entry, count,
                   calls, added, printed, returned, first>>

\* parser.next() returns Err: `while let Ok(e)` does not match, the loop is
\* left and parse_xml_and_index returns Ok(count).
SourceErrorStep ==
    /\ pc = "loop"
    /\ ParserNext(doc, pos).type = "Error"
    /\ pc' = "commit"
    /\ pos' = pos + 1
    /\ UNCHANGED <<file, doc, why, glosses, poses, fields, current_entry, count,
                   calls, added, printed, returned, first>>

\* commit_index: the total is printed, then the writer commits.
commit_index(commit_ok) ==
    /\ pc = "commit"
    /\ calls' = Append(calls, "commit")
    /\ printed' = IF commit_ok
                  THEN printed \o <<<<"total", count>>, <<"committed", count>>>>
                  ELSE Append(printed, <<"total", count>>)
    /\ pc' = IF commit_ok THEN "ok" ELSE "err"
    /\ why' = IF commit_ok THEN "" ELSE "commit"
    /\ UNCHANGED <<file, doc, pos, glosses, poses, fields, current_entry, count,
                   added, returned, first>>

CreateIndexStep ==
    /\ pc = "create"
    /\ \E failing \in {"none", "setup_tokenizer", "writer",
                        "delete_all_documents", "create_parser"} :
          \E d \in IF failing = "none" THEN {Whole(file), Broken(file)}
                   ELSE {<<>>} :
              create_index(failing, d)

CommitIndexStep == \E commit_ok \in BOOLEAN : commit_index(commit_ok)

\* create_index is run once more, on an empty index and on a reader that
\* emits the same events, after a run in which no call on the index failed.
RunAgainStep ==
    /\ pc \in {"ok", "panic"}
    /\ ~first.ran
    /\ first' = [ran |-> TRUE, pc |-> pc, count |-> count, added |-> added]
    /\ LET c == parse_context([glosses |-> glosses, poses |-> poses,
                               fields |-> fields,
                               current_entry |-> current_entry, count |-> count])
       IN  /\ glosses' = c.glosses
           /\ poses' = c.poses
           /\ fields' = c.fields
           /\ current_entry' = c.current_entry
           /\ count' = c.count
    /\ calls' = <<"delete_all_documents">>
    /\ added' = <<>>
    /\ printed' = <<>>
    /\ pos' = 1
    /\ pc' = "loop"
    /\ why' = ""
    /\ UNCHANGED <<file, doc, returned>>

----------------------------------------------------------------------------
(* test_extract_next_string: a reader is opened on a document and          *)
(* extract_next_string is called on it again and again from the start of   *)
(* the document, each result being compared with the expected one.         *)

\* The results the test expects, in order.
TestExpected ==
    <<<<"1">>,
      <<"KANJI_NICHI", "KANJI_HON">>,
      <<"NI", "HO", "N">>,
      <<"J", "a", "p", "a", "n">>,
      <<"J", "a", "p", "a", "n", "e", "s", "e">>,
      <<"n", "o", "u", "n">>,
      <<"p", "r", "o", "p", "e", "r", " ", "n", "o", "u", "n">>,
      <<"p", "l", "a", "c", "e">>,
      <<"c", "o", "u", "n", "t", "r", "y">>>>

\* EventReader::from_str on the text of the file.
TestOpenStep ==
    /\ pc = "create"
    /\ \E d \in {Whole(file), Broken(file)} : doc' = d
    /\ pc' = "test"
    /\ UNCHANGED <<file, pos, why, glosses, poses, fields, current_entry, count,
                   calls, added, printed, returned, first>>

\* assert_eq!(extract_next_string(&mut parser), expected): the call, then
\* the comparison, which panics when the two differ.
TestExtractStep ==
    /\ pc = "test"
    /\ Len(returned) < Len(TestExpected)
    /\ LET r == extract_next_string(doc, pos) IN
       /\ pos' = r.pos
       /\ returned' = IF r.status = "ok" THEN Append(returned, r.buf) ELSE returned
       /\ pc' = IF r.status # "ok" THEN r.status
                ELSE IF r.buf # TestExpected[Len(returned) + 1] THEN "panic"
                ELSE "test"
       /\ why' = IF r.status # "ok" THEN "extract_next_string"
                 ELSE IF r.buf # TestExpected[Len(returned) + 1] THEN "assert_eq"
                 ELSE ""
    /\ UNCHANGED <<file, doc, glosses, poses, fields, current_entry, count, calls,
                   added, printed, first>>

\* The last comparison held: the test passes.
TestPassStep ==
    /\ pc = "test"
    /\ Len(returned) = Len(TestExpected)
    /\ pc' = "passed"
    /\ UNCHANGED <<file, doc, pos, why, glosses, poses, fields, current_entry,
                   count, calls, added, printed, returned, first>>

----------------------------------------------------------------------------
(* The specification.                                                      *)

Init ==
    /\ file = EmptyFile
    /\ doc = <<>>
    /\ pos = 1
    /\ pc = "create"
    /\ why = ""
    /\ ContextInit
    /\ calls = <<>>
    /\ added = <<>>
    /\ printed = <<>>
    /\ returned = <<>>
    /\ first = NoRun

Next ==
    \/ WriteFragment
    \/ WriteNamedFile
    \/ CreateIndexStep
    \/ StartElementStep
    \/ EndElementStep
    \/ EndDocumentStep
    \/ OtherEventStep
    \/ SourceErrorStep
    \/ CommitIndexStep

Spec == Init /\ [][Next]_vars

\* create_index calls commit_index as soon as parse_xml_and_index has
\* returned: the run does not stop in between.
FairSpec == Spec /\ WF_vars(CommitIndexStep)

\* The run over a long dictionary.
LongNext ==
    \/ WriteLongFile
    \/ CreateIndexStep
    \/ StartElementStep
    \/ EndElementStep
    \/ EndDocumentStep
    \/ OtherEventStep
    \/ SourceErrorStep
    \/ CommitIndexStep

\* The state of the run over the events d once the loop has handled k
\* entries without a leaf, each added: the loop is about to read the start
\* of the next entry.
AfterEntries(b, d, k) ==
    /\ file = b
    /\ doc = d
    /\ pos = 3 + 2 * k
    /\ pc = "loop"
    /\ why = ""
    /\ glosses = <<>>
    /\ poses = <<>>
    /\ fields = <<>>
    /\ current_entry = None
    /\ count = k
    /\ calls = <<"delete_all_documents">> \o [i \in 1..k |-> "add_document"]
    /\ added = [i \in 1..k |-> EmptyDocument]
    /\ printed = [j \in 1..(k \div ProgressEvery) |-> <<"read", j * ProgressEvery>>]
    /\ returned = <<>>
    /\ first = NoRun

\* The run over a long dictionary is followed from its start and, again,
\* from the states it is in shortly before the count reaches a multiple of
\* a thousand.
LongInit ==
    \/ Init
    \/ \E n \in {1000, LongFileEntries} :
          \E k \in {j \in {998, 1998} : j < n} :
              \E d \in {Whole(LongFile(n)), Broken(LongFile(n))} :
                  AfterEntries(LongFile(n), d, k)

LongSpec == LongInit /\ [][LongNext]_vars

\* The run, and the same run once more.
TwiceNext == Next \/ RunAgainStep

TwiceSpec == Init /\ [][TwiceNext]_vars

\* The test instead of the run.
TestNext ==
    \/ WriteFragment
    \/ WriteNamedFile
    \/ TestOpenStep
    \/ TestExtractStep
    \/ TestPassStep

TestSpec == Init /\ [][TestNext]_vars

----------------------------------------------------------------------------
(* The structure of a document, read off its events: the elements, their   *)
(* nesting and their texts. These definitions describe the input; the      *)
(* properties below compare what the run produced with them.               *)

Starts(d, a, b) == Cardinality({j \in a..b : d[j].type = "StartElement"})
Ends(d, a, b) == Cardinality({j \in a..b : d[j].type = "EndElement"})

\* The events a..b are well nested among themselves up to b.
Balanced(d, a, b) == Starts(d, a, b) = Ends(d, a, b)

\* The position of the StartElement that the EndElement at q closes.
MatchStart(d, q) ==
    CHOOSE s \in 1..(q - 1) :
        /\ d[s].type = "StartElement"
        /\ Balanced(d, s + 1, q - 1)
        /\ \A t \in (s + 1)..(q - 1) :
              ~(d[t].type = "StartElement" /\ Balanced(d, t + 1, q - 1))

\* The positions in s+1..q-1 of the StartElements named n, and of those
\* among them that are children of the element s..q.
Inside(d, s, q, n) == {i \in (s + 1)..(q - 1) : d[i] = StartEl(n)}
Children(d, s, q, n) == {i \in Inside(d, s, q, n) : Balanced(d, s + 1, i - 1)}

\* The position of the EndElement that closes the StartElement at s, when
\* the document has it.
HasEnd(d, s) ==
    \E q \in (s + 1)..Len(d) : d[q].type = "EndElement" /\ Balanced(d, s + 1, q - 1)
MatchEnd(d, s) ==
    CHOOSE q \in (s + 1)..Len(d) :
        /\ d[q].type = "EndElement"
        /\ Balanced(d, s + 1, q - 1)
        /\ \A t \in (s + 1)..(q - 1) :
              ~(d[t].type = "EndElement" /\ Balanced(d, s + 1, t - 1))

\* The members of a set of positions, in increasing order.
RECURSIVE InOrder(_)
InOrder(S) ==
    IF S = {} THEN <<>>
    ELSE LET m == CHOOSE x \in S : \A y \in S : x <= y
         IN  <<m>> \o InOrder(S \ {m})

\* The text of the events a..b: their Characters, in order.
RECURSIVE TextIn(_, _, _)
TextIn(d, a, b) ==
    IF a > b THEN <<>>
    ELSE (IF d[a].type = "Characters" THEN d[a].text ELSE <<>>) \o TextIn(d, a + 1, b)

\* The text of the element that starts at s.
TextOf(d, s) == TextIn(d, s + 1, MatchEnd(d, s) - 1)

\* The texts of the elements named n inside the element s..q, in document
\* order.
TextsInside(d, s, q, n) ==
    LET at == InOrder(Inside(d, s, q, n))
    IN  [k \in 1..Len(at) |-> TextOf(d, at[k])]

\* Every leaf element that starts before q holds no element: after its
\* StartElement, the next StartElement or EndElement is its own end.
LeavesHoldOnlyText(d, q) ==
    \A i \in 1..(q - 1) :
        (d[i].type = "StartElement" /\ d[i].name \in LeafTags) =>
            /\ HasEnd(d, i)
            /\ Starts(d, i + 1, MatchEnd(d, i) - 1) = 0

\* The loop has just handled the event at pos - 1 and goes on.
JustHandled(e) == pc = "loop" /\ pos > 1 /\ doc[pos - 1] = e

\* The loop is about to handle the event e.
AboutToHandle(e) == pc = "loop" /\ ParserNext(doc, pos) = e

----------------------------------------------------------------------------
(* C1: one Record per End `entry`.                                         *)

\* The number of `entry` elements the document closes.
ClosedEntries(d) == Cardinality({i \in 1..Len(d) : d[i] = EndEl("entry")})

\* C1 as stated, for the runs that return a count: the number of documents
\* added equals the number of closed `entry` elements of the event stream
\* and equals the count returned at the end.
C1_AddsEqualClosedEntries ==
    pc \in {"commit", "ok"} =>
        /\ Len(added) = ClosedEntries(doc)
        /\ count = ClosedEntries(doc)

\* C1, amended: each End `entry` that the loop of parse_xml_and_index
\* handles while a Record is in flight and whose add succeeds hands exactly
\* that Record to the sink and increments the count by one, and leaves no
\* Record in flight; an End `entry` handled with no Record in flight panics
\* and one whose add fails aborts, both adding nothing; no other step adds
\* a Record or changes the count, so the number of Records added always
\* equals the count.
C1_OneRecordPerHandledEndEntry ==
    [][/\ Len(added') = count'
       /\ AboutToHandle(EndEl("entry")) =>
             \/ /\ current_entry.some
                /\ pc' = "loop"
                /\ added' = Append(added, current_entry.doc)
                /\ count' = count + 1
                /\ ~current_entry'.some
             \/ /\ current_entry.some
                /\ pc' = "err"
                /\ added' = added
                /\ count' = count
                /\ ~current_entry'.some
             \/ /\ ~current_entry.some
                /\ pc' = "panic"
                /\ added' = added
                /\ count' = count
       /\ ~AboutToHandle(EndEl("entry")) => (added' = added /\ count' = count)
      ]_vars

\* Two entries have been handed over, one after the other.
C1_Witness ==
    /\ JustHandled(EndEl("entry"))
    /\ Len(added) = 2
    /\ count = 2
    /\ ~current_entry.some

----------------------------------------------------------------------------
(* C2: one triple of values per sense.                                     *)

\* The three values a sense element s..q stands for: the texts of its
\* gloss, pos and field elements, each kind joined with "; ".
SenseValues(d, s, q) ==
    [meaning |-> Join(TextsInside(d, s, q, "gloss"), Separator),
     pos |-> Join(TextsInside(d, s, q, "pos"), Separator),
     field |-> Join(TextsInside(d, s, q, "field"), Separator)]

\* The Record r has, under each of the three fields, one value per sense
\* child of the entry s..q, the k-th from the k-th of them.
OneTriplePerSense(r, d, s, q) ==
    LET at == InOrder(Children(d, s, q, "sense")) IN
    /\ Len(r.meaning) = Len(at)
    /\ Len(r.pos) = Len(at)
    /\ Len(r.field) = Len(at)
    /\ \A k \in 1..Len(at) :
          LET v == SenseValues(d, at[k], MatchEnd(d, at[k])) IN
          /\ r.meaning[k] = v.meaning
          /\ r.pos[k] = v.pos
          /\ r.field[k] = v.field

SameLengths(r) == Len(r.meaning) = Len(r.pos) /\ Len(r.pos) = Len(r.field)

\* C2 as stated: the three sequences of the Record in flight always have
\* the same length, and the Record handed over when an entry with N sense
\* children closes has N values in each, the k-th from the k-th sense.
C2_TriplePerSenseChild ==
    /\ SameLengths(current_entry.doc)
    /\ JustHandled(EndEl("entry")) =>
          OneTriplePerSense(added[Len(added)], doc,
                            MatchStart(doc, pos - 1), pos - 1)

\* C2, amended: the three sequences of the Record in flight always have the
\* same length; and in a document whose leaf elements (ent_seq, keb, reb,
\* gloss, pos, field) hold only text, the Record handed over when an entry
\* closes all of whose N sense elements are its children has N values in
\* each sequence, the k-th from the k-th sense.
C2_TriplePerSenseOfFlatEntry ==
    /\ SameLengths(current_entry.doc)
    /\ \A k \in 1..Len(added) : SameLengths(added[k])
    /\ (/\ JustHandled(EndEl("entry"))
        /\ LeavesHoldOnlyText(doc, pos - 1)
        /\ Inside(doc, MatchStart(doc, pos - 1), pos - 1, "sense")
              = Children(doc, MatchStart(doc, pos - 1), pos - 1, "sense"))
       => OneTriplePerSense(added[Len(added)], doc,
                            MatchStart(doc, pos - 1), pos - 1)

\* An entry with two senses has been handed over, the first sense with a
\* gloss and the second without any.
C2_Witness ==
    /\ JustHandled(EndEl("entry"))
    /\ LeavesHoldOnlyText(doc, pos - 1)
    /\ Len(added[Len(added)].meaning) = 2
    /\ added[Len(added)].meaning[1] # <<>>
    /\ added[Len(added)].meaning[2] = <<>>
    /\ Cardinality(Children(doc, MatchStart(doc, pos - 1), pos - 1, "sense")) = 2

----------------------------------------------------------------------------
(* C3: readings and their romanizations go together.                       *)

Romanized(r) ==
    /\ Len(r.reading) = Len(r.reading_romaji)
    /\ \A i \in 1..Len(r.reading) : r.reading_romaji[i] = to_romaji(r.reading[i])

\* C3: the readings of the Record in flight and their romanizations have
\* the same length and the i-th romanization is the transliteration of the
\* i-th reading; a step changes either sequence only by handling the start
\* of a `reb`, which appends one value to both, or by starting a new Record
\* or handing the Record over, which leaves both empty.
C3_ReadingsRomanized ==
    [][LET r == current_entry.doc
           r2 == current_entry'.doc
       IN  /\ Romanized(r2)
           /\ (r2.reading # r.reading \/ r2.reading_romaji # r.reading_romaji) =>
                 \/ /\ AboutToHandle(StartEl("reb"))
                    /\ Len(r2.reading) = Len(r.reading) + 1
                    /\ SubSeq(r2.reading, 1, Len(r.reading)) = r.reading
                    /\ Len(r2.reading_romaji) = Len(r.reading_romaji) + 1
                    /\ SubSeq(r2.reading_romaji, 1, Len(r.reading_romaji))
                          = r.reading_romaji
                 \/ /\ \/ AboutToHandle(StartEl("entry"))
                       \/ AboutToHandle(EndEl("entry"))
                    /\ r2.reading = <<>>
                    /\ r2.reading_romaji = <<>>
      ]_vars

\* A Record in flight with two readings, romanized.
C3_Witness ==
    /\ current_entry.some
    /\ current_entry.doc.reading = <<<<"NI">>, <<"NI">>>>
    /\ current_entry.doc.reading_romaji = <<<<"n", "i">>, <<"n", "i">>>>

----------------------------------------------------------------------------
(* C4: the values of a sense are its texts joined with "; ".               *)

\* The step appends, to each of the three sequences of the Record in
\* flight, the value of the sense element that the event at pos closes.
AppendsSenseValues ==
    LET v == SenseValues(doc, MatchStart(doc, pos), pos)
        r == current_entry.doc
        r2 == current_entry'.doc
    IN  /\ current_entry'.some
        /\ r2.meaning = Append(r.meaning, v.meaning)
        /\ r2.pos = Append(r.pos, v.pos)
        /\ r2.field = Append(r.field, v.field)

\* C4 as stated: when a sense closes, the values appended to the Record are
\* the texts of the gloss (pos, field) leaves seen since that sense opened,
\* in document order, joined with "; ".
C4_JoinedSinceSenseOpened ==
    [][(AboutToHandle(EndEl("sense")) /\ current_entry.some)
          => AppendsSenseValues]_vars

\* C4, amended: in a document whose leaf elements hold only text, when a
\* sense that holds no other sense closes, the values appended to the
\* Record in flight are the texts of its gloss (pos, field) leaves, in
\* document order, joined with "; ".
C4_JoinedTextsOfFlatSense ==
    [][(/\ AboutToHandle(EndEl("sense"))
        /\ current_entry.some
        /\ LeavesHoldOnlyText(doc, pos)
        /\ Inside(doc, MatchStart(doc, pos), pos, "sense") = {})
          => AppendsSenseValues]_vars

\* A sense with the glosses g and h has closed: "g; h" is the meaning.
C4_Witness ==
    /\ JustHandled(EndEl("sense"))
    /\ LeavesHoldOnlyText(doc, pos - 1)
    /\ current_entry.some
    /\ current_entry.doc.meaning = <<<<"g", ";", " ", "h">>>>

----------------------------------------------------------------------------
(* C5: the entry of the test document.                                     *)

\* The Record of the end-to-end scenario, written out.
TestRecord ==
    [id |-> <<1>>,
     word |-> <<<<"KANJI_NICHI", "KANJI_HON">>>>,
     reading |-> <<<<"NI", "HO", "N">>>>,
     reading_romaji |-> <<to_romaji(<<"NI", "HO", "N">>)>>,
     meaning |-> <<<<"J", "a", "p", "a", "n", ";", " ",
                     "J", "a", "p", "a", "n", "e", "s", "e">>>>,
     pos |-> <<<<"n", "o", "u", "n", ";", " ",
                 "p", "r", "o", "p", "e", "r", " ", "n", "o", "u", "n">>>>,
     field |-> <<<<"p", "l", "a", "c", "e", ";", " ",
                   "c", "o", "u", "n", "t", "r", "y">>>>]

\* C5: on the events of the test document the run neither panics nor
\* hangs, it adds nothing but the Record of the scenario, and when the loop
\* is left exactly that one Record has been added and the count is 1 (the
\* romanization being "nihon").
C5_TestDocumentRecord ==
    doc = Whole(TestFile) =>
        /\ pc \notin {"panic", "hang"}
        /\ added \in {<<>>, <<TestRecord>>}
        /\ pc \in {"commit", "ok"} =>
              /\ added = <<TestRecord>>
              /\ count = 1
              /\ Cardinality({i \in 1..Len(calls) : calls[i] = "add_document"}) = 1
        /\ TestRecord.reading_romaji = <<<<"n", "i", "h", "o", "n">>>>

\* The run on the test document has committed.
C5_Witness == doc = Whole(TestFile) /\ pc = "ok" /\ added = <<TestRecord>>

----------------------------------------------------------------------------
(* C6: forms and readings are all the keb and reb texts of the entry.      *)

\* The Record r has the texts of all keb and reb elements of the entry
\* s..q, in document order.
AllFormsAndReadings(r, d, s, q) ==
    /\ r.word = TextsInside(d, s, q, "keb")
    /\ r.reading = TextsInside(d, s, q, "reb")

\* C6 as stated: the Record handed over when an entry closes has, as its
\* forms and readings, the texts of all the keb and reb leaves of the entry,
\* in document order.
C6_AllKebAndRebTexts ==
    JustHandled(EndEl("entry")) =>
        AllFormsAndReadings(added[Len(added)], doc,
                            MatchStart(doc, pos - 1), pos - 1)

\* C6, amended: in a document whose leaf elements (ent_seq, keb, reb, gloss,
\* pos, field) hold only text, the Record handed over when an entry closes
\* has, as its forms and readings, the texts of all the keb and reb leaves
\* of the entry, in document order.
C6_AllKebAndRebTextsOfLeaves ==
    (JustHandled(EndEl("entry")) /\ LeavesHoldOnlyText(doc, pos - 1)) =>
        AllFormsAndReadings(added[Len(added)], doc,
                            MatchStart(doc, pos - 1), pos - 1)

\* An entry with the forms a, b, a, the last one between two senses, and a
\* reading between the first two has been handed over.
C6_Witness ==
    /\ JustHandled(EndEl("entry"))
    /\ LeavesHoldOnlyText(doc, pos - 1)
    /\ added[Len(added)].word = <<<<"a">>, <<"b">>, <<"a">>>>
    /\ added[Len(added)].reading = <<<<"NI">>>>
    /\ Len(added[Len(added)].meaning) = 2

----------------------------------------------------------------------------
(* C7, C8, C9: what the run does with a bad id, a missing id, an error.    *)

\* The text that extract_next_string returns for the leaf whose
\* StartElement is at i is an integer.
IdTextIsInteger(d, i) == parse_i64(extract_next_string(d, i + 1).buf).ok

\* C7 as stated: when the loop handles the start of an ent_seq whose text
\* is not an integer, the run ends with an error result, not a panic; the
\* Record in flight is not added and the writer is not called.
C7_BadIdIsAnErrorResult ==
    [][(/\ AboutToHandle(StartEl("ent_seq"))
        /\ current_entry.some
        /\ extract_next_string(doc, pos + 1).status = "ok"
        /\ ~IdTextIsInteger(doc, pos))
          => (pc' = "err" /\ added' = added /\ calls' = calls)]_vars

\* C8 as stated: every Record handed to the sink carries exactly one id.
C8_ExactlyOneId == \A k \in 1..Len(added) : Len(added[k].id) = 1

\* The reader has returned an error to the loop of parse_xml_and_index.
SourceErrorSeen == pc # "create" /\ \E i \in 1..(pos - 1) : doc[i].type = "Error"

\* C9 as stated: once an error has occurred before the commit (here: the
\* reader returned an error in the loop), the run ends with an error
\* outcome and commit is never called.
C9_NoCommitAfterError ==
    SourceErrorSeen =>
        /\ pc \notin {"commit", "ok"}
        /\ "commit" \notin {calls[i] : i \in 1..Len(calls)}

----------------------------------------------------------------------------
(* C10: a failing add aborts the run.                                      *)

\* C10: when add_document fails on an End `entry` (the call is made and no
\* document is added), the run ends with the error: the count is not
\* incremented and no progress line is printed for the entry; and after any
\* error result no further step is taken: no event is read and commit is
\* not called.
C10_FailedAddAborts ==
    [][/\ (calls' = Append(calls, "add_document") /\ added' = added) =>
             /\ AboutToHandle(EndEl("entry"))
             /\ pc' = "err"
             /\ count' = count
             /\ printed' = printed
             /\ pos' = pos + 1
       /\ pc # "err"
      ]_vars

\* The add of a second entry has failed after the first was added.
C10_Witness ==
    /\ pc = "err"
    /\ why = "add_document"
    /\ calls = <<"delete_all_documents", "add_document", "add_document">>
    /\ Len(added) = 1
    /\ count = 1

----------------------------------------------------------------------------
(* C11: extract_next_string when the stream ends inside the accumulation.  *)

\* The next step calls extract_next_string: the test calls it at pos, the
\* loop of parse_xml_and_index after the StartElement of a leaf at pos.
AccumulatorCalled ==
    \/ pc = "test" /\ Len(returned) < Len(TestExpected)
    \/ /\ pc = "loop"
       /\ ParserNext(doc, pos).type = "StartElement"
       /\ ParserNext(doc, pos).name \in LeafTags
AccumulatorCalledAt == IF pc = "test" THEN pos ELSE pos + 1

\* From position p on the stream d ends (with EndDocument or with the
\* reader's error) before any EndElement of a leaf tag.
RunsOffTheEnd(d, p) ==
    ~\E q \in p..Len(d) : d[q].type = "EndElement" /\ d[q].name \in LeafTags

\* C11 as stated: when extract_next_string is called and the stream ends
\* before an EndElement of a leaf tag, the call fails by returning an error:
\* the caller ends with an error result, it neither panics nor loops
\* forever.
C11_RunningOffTheEndIsAnError ==
    [][(AccumulatorCalled /\ RunsOffTheEnd(doc, AccumulatorCalledAt))
          => pc' = "err"]_vars

----------------------------------------------------------------------------
(* C12: an entry without senses or without readings.                       *)

\* The loop is about to handle the end of an entry that holds no element
\* named n.
EntryWithout(n) ==
    /\ AboutToHandle(EndEl("entry"))
    /\ Inside(doc, MatchStart(doc, pos), pos, n) = {}

\* The step hands the Record in flight, whose fields fs are empty, to the
\* writer, and counts it unless the writer refuses it.
AddedWithEmpty(fs) ==
    /\ current_entry.some
    /\ \A f \in fs : current_entry.doc[f] = <<>>
    /\ calls' = Append(calls, "add_document")
    /\ \/ pc' = "loop" /\ added' = Append(added, current_entry.doc)
                       /\ count' = count + 1
       \/ pc' = "err" /\ why' = "add_document"

\* C12 as stated: at the end of an entry that holds no sense the Record is
\* added and counted, with no meaning, part of speech or field; at the end of
\* an entry that holds no reb it is added and counted, with no reading and no
\* romanization.
C12_AddedWithoutSenseOrReb ==
    [][/\ EntryWithout("sense") => AddedWithEmpty({"meaning", "pos", "field"})
       /\ EntryWithout("reb") => AddedWithEmpty({"reading", "reading_romaji"})
      ]_vars

\* C12, amended: in a document whose leaf elements hold only text, the same
\* for an entry that holds no other entry.
C12_AddedWithoutSenseOrRebWhenFlat ==
    [][(/\ LeavesHoldOnlyText(doc, pos)
        /\ EntryWithout("entry"))
          => /\ EntryWithout("sense") => AddedWithEmpty({"meaning", "pos", "field"})
             /\ EntryWithout("reb") => AddedWithEmpty({"reading", "reading_romaji"})
      ]_vars

\* An entry that holds an id and a form, no sense and no reb, has been added
\* and counted.
C12_Witness ==
    /\ JustHandled(EndEl("entry"))
    /\ LeavesHoldOnlyText(doc, pos - 1)
    /\ Inside(doc, MatchStart(doc, pos - 1), pos - 1, "sense") = {}
    /\ Inside(doc, MatchStart(doc, pos - 1), pos - 1, "reb") = {}
    /\ Inside(doc, MatchStart(doc, pos - 1), pos - 1, "entry") = {}
    /\ count = 1
    /\ added = <<[EmptyDocument EXCEPT !.id = <<1>>, !.word = <<<<"a">>>>]>>

----------------------------------------------------------------------------
(* C13: the order of the calls made on the index writer.                   *)

\* The positions in calls of the calls named c.
CallsOf(c) == {i \in 1..Len(calls) : calls[i] = c}

\* The index was cleared before the first event was read and before any add.
ClearedFirst ==
    (pos > 1 \/ CallsOf("add_document") # {} \/ added # <<>>) =>
        /\ calls # <<>>
        /\ calls[1] = "delete_all_documents"
        /\ CallsOf("delete_all_documents") = {1}

\* No add_document comes after a commit.
AddsBeforeCommit ==
    \A i \in CallsOf("commit") : \A j \in CallsOf("add_document") : j < i

\* The loop of parse_xml_and_index has read EndDocument.
ReachedEndDocument ==
    /\ pc \in {"commit", "ok", "err"}
    /\ doc # <<>>
    /\ pos = Len(doc) + 1
    /\ doc[Len(doc)] = EndDocument

\* At most one commit, and once the run is over exactly one, the last call.
CommitOnceAtEnd ==
    /\ Cardinality(CallsOf("commit")) <= 1
    /\ pc \in {"ok", "err"} => CallsOf("commit") = {Len(calls)}

\* C13: the index is cleared before the first event is read and before any
\* add; every add_document precedes the commit; on a run that reaches
\* EndDocument commit is called, exactly once and after the last
\* add_document, and after EndDocument no event is read and nothing is
\* added.
C13_SinkOperationsInOrder ==
    /\ [](ClearedFirst /\ AddsBeforeCommit
            /\ (ReachedEndDocument => CommitOnceAtEnd))
    /\ [][ReachedEndDocument =>
             /\ pos' = pos
             /\ added' = added
             /\ calls' \in {calls, Append(calls, "commit")}]_vars
    /\ (ReachedEndDocument ~> CallsOf("commit") # {})

\* A run over two entries has committed: clear, add, add, commit.
C13_Witness ==
    /\ ReachedEndDocument
    /\ pc = "ok"
    /\ calls = <<"delete_all_documents", "add_document", "add_document", "commit">>
    /\ Len(added) = 2

----------------------------------------------------------------------------
(* C14: the progress lines.                                                *)

\* The lines of the kind k among the printed ones, in order.
LinesOf(k) == SelectSeq(printed, LAMBDA l : l[1] = k)

\* C14: a step prints a progress line exactly when it handles an End
\* `entry` that increments the count to a positive multiple of 1000, and
\* the line carries that count; so the progress lines are those of 1000,
\* 2000, ... up to the count, each once. No total is printed before the
\* loop is left, and a run that has reached EndDocument and is over has
\* printed the total exactly once, after the progress lines, carrying the
\* final count.
C14_ProgressLines ==
    /\ [][IF /\ AboutToHandle(EndEl("entry"))
             /\ count' = count + 1
             /\ count' > 0
             /\ count' % 1000 = 0
          THEN printed' = Append(printed, <<"read", count'>>)
          ELSE LinesOf("read")' = LinesOf("read")]_vars
    /\ [](/\ LinesOf("read")
                = [k \in 1..(count \div 1000) |-> <<"read", 1000 * k>>]
          /\ pc \in {"create", "loop", "commit", "panic"} => LinesOf("total") = <<>>
          /\ (ReachedEndDocument /\ pc \in {"ok", "err"}) =>
                /\ LinesOf("total") = <<<<"total", count>>>>
                /\ count = Len(added)
                /\ printed[Len(LinesOf("read")) + 1] = <<"total", count>>)

\* The run over the long dictionary has committed: two progress lines, then
\* the total.
C14_Witness ==
    /\ ReachedEndDocument
    /\ pc = "ok"
    /\ count = LongFileEntries
    /\ printed = <<<<"read", 1000>>, <<"read", 2000>>,
                   <<"total", LongFileEntries>>, <<"committed", LongFileEntries>>>>

----------------------------------------------------------------------------
(* C15: two runs over the same events.                                     *)

----------------------------------------------------------------------------
(* C16: what extract_next_string returns.                                  *)

\* The position of the first EndElement of a leaf tag at or after p.
FirstLeafEnd(d, p) ==
    CHOOSE q \in p..Len(d) :
        /\ d[q].type = "EndElement" /\ d[q].name \in LeafTags
        /\ \A t \in p..(q - 1) :
              ~(d[t].type = "EndElement" /\ d[t].name \in LeafTags)

\* C16: a call of extract_next_string with an EndElement of a leaf tag
\* ahead returns the texts of the Characters events up to the first such
\* EndElement, in order, and nothing else, and leaves the reader just after
\* that EndElement; and on the test document the successive calls return
\* the nine expected texts, so the test passes.
C16_TextUpToFirstLeafEnd ==
    /\ [][(/\ pc = "test"
            /\ Len(returned) < Len(TestExpected)
            /\ ~RunsOffTheEnd(doc, pos))
              => /\ returned' = Append(returned,
                                       TextIn(doc, pos, FirstLeafEnd(doc, pos) - 1))
                 /\ pos' = FirstLeafEnd(doc, pos) + 1]_vars
    /\ []((pc \in {"test", "passed", "panic", "hang"} /\ doc = Whole(TestFile)) =>
             /\ pc \in {"test", "passed"}
             /\ Len(returned) <= Len(TestExpected)
             /\ returned = SubSeq(TestExpected, 1, Len(returned))
             /\ pc = "passed" => returned = TestExpected)

\* The test has passed on the test document.
C16_Witness ==
    /\ pc = "passed"
    /\ doc = Whole(TestFile)
    /\ Len(returned) = 9
    /\ returned[1] = <<"1">>
    /\ returned[7] = <<"p", "r", "o", "p", "e", "r", " ", "n", "o", "u", "n">>

----------------------------------------------------------------------------
(* C17: extract_next_string and the end of the leaf it is called for.      *)

\* The step stores the text v as the value of a leaf named n: under its
\* field of the Record in flight, or in its buffer of the sense.
StoredAs(n, v) ==
    CASE n = "ent_seq" ->
            /\ parse_i64(v).ok
            /\ current_entry'.doc.id = Append(current_entry.doc.id, parse_i64(v).val)
      [] n = "keb" -> current_entry'.doc.word = Append(current_entry.doc.word, v)
      [] n = "reb" ->
            current_entry'.doc.reading = Append(current_entry.doc.reading, v)
      [] n = "gloss" -> glosses' = Append(glosses, v)
      [] n = "pos" -> poses' = Append(poses, v)
      [] n = "field" -> fields' = Append(fields, v)

\* The loop is about to handle the StartElement of a leaf that the document
\* closes.
AboutToReadLeaf ==
    /\ pc = "loop"
    /\ ParserNext(doc, pos).type = "StartElement"
    /\ ParserNext(doc, pos).name \in LeafTags
    /\ HasEnd(doc, pos)

\* The step reads up to the EndElement that closes the leaf at pos, and the
\* value it stores, if it goes on, is the text of the leaf.
ReadsWholeLeaf ==
    /\ pos' = MatchEnd(doc, pos) + 1
    /\ pc' = "loop" => StoredAs(doc[pos].name, TextOf(doc, pos))

\* The leaf at position i holds no element with the tag of a leaf.
NoLeafInside(d, i) ==
    \A t \in (i + 1)..(MatchEnd(d, i) - 1) :
        ~(d[t].type = "StartElement" /\ d[t].name \in LeafTags)

\* C17 as stated: for a leaf opened by a StartElement, extract_next_string
\* reads up to the EndElement that closes that leaf and returns the texts
\* of all the Characters between the two, whatever is nested in the leaf.
C17_ReadsToMatchingEnd ==
    [][AboutToReadLeaf => ReadsWholeLeaf]_vars

\* C17, amended: the same for a leaf that holds no element with the tag of
\* a leaf, whatever else is nested in it.
C17_ReadsToMatchingEndUnlessLeafInside ==
    [][(AboutToReadLeaf /\ NoLeafInside(doc, pos)) => ReadsWholeLeaf]_vars

\* A keb that holds a text and then a k_ele element has been read to its
\* end, and the text stored as a form.
C17_Witness ==
    /\ pc = "loop"
    /\ pos > 5
    /\ doc[pos - 1] = EndEl("keb")
    /\ doc[pos - 2] = EndEl("k_ele")
    /\ doc[pos - 3] = StartEl("k_ele")
    /\ doc[pos - 4] = Chars(<<"c">>)
    /\ doc[pos - 5] = StartEl("keb")
    /\ current_entry.doc.word = <<<<"c">>>>

----------------------------------------------------------------------------
(* C18: the buffers of a sense hold the values of that sense only.         *)

\* The position of the last StartElement of a sense before q (0: none).
LastSenseStart(d, q) ==
    LET at == {i \in 1..(q - 1) : d[i] = StartEl("sense")}
    IN  IF at = {} THEN 0 ELSE CHOOSE i \in at : \A j \in at : j <= i

\* The text read for the leaf whose StartElement is at i: the Characters up
\* to the first EndElement of a leaf tag.
ReadFor(d, i) == TextIn(d, i + 1, FirstLeafEnd(d, i + 1) - 1)

\* Every value of the buffer buf was read for a leaf named n that lies
\* between the position s and the position q.
ReadBetween(buf, n, d, s, q) ==
    \A k \in 1..Len(buf) :
        \E i \in (s + 1)..(q - 1) : d[i] = StartEl(n) /\ buf[k] = ReadFor(d, i)

BuffersEmpty == glosses = <<>> /\ poses = <<>> /\ fields = <<>>

\* The step appends, to the three sequences of the Record in flight, strings
\* joined of values read for leaves between the most recent StartElement of
\* a sense and the EndElement of a sense at pos.
AppendsValuesOfThisSense ==
    LET s == LastSenseStart(doc, pos)
        r == current_entry.doc
        r2 == current_entry'.doc
    IN  /\ s > 0
        /\ ReadBetween(glosses, "gloss", doc, s, pos)
        /\ ReadBetween(poses, "pos", doc, s, pos)
        /\ ReadBetween(fields, "field", doc, s, pos)
        /\ r2.meaning = Append(r.meaning, Join(glosses, Separator))
        /\ r2.pos = Append(r.pos, Join(poses, Separator))
        /\ r2.field = Append(r.field, Join(fields, Separator))

\* The step leaves the meanings, parts of speech and fields of the Record
\* in flight as they are, unless it handles the start or the end of an
\* entry, which begins or hands over the Record.
SenseFieldsKept ==
    \/ AboutToHandle(StartEl("entry"))
    \/ AboutToHandle(EndEl("entry"))
    \/ /\ current_entry'.doc.meaning = current_entry.doc.meaning
       /\ current_entry'.doc.pos = current_entry.doc.pos
       /\ current_entry'.doc.field = current_entry.doc.field

\* C18 as stated: the buffers are empty just after every Start `sense` and
\* every End `sense`; the strings appended to the Record at an End `sense`
\* hold only values read for leaves between the most recent Start `sense`
\* and that End `sense`; and no other step puts a meaning, a part of speech
\* or a field into a Record.
C18_OnlyValuesOfTheSense ==
    /\ []((JustHandled(StartEl("sense")) \/ JustHandled(EndEl("sense")))
            => BuffersEmpty)
    /\ [][IF AboutToHandle(EndEl("sense"))
          THEN current_entry.some => AppendsValuesOfThisSense
          ELSE SenseFieldsKept]_vars

\* C18, amended: the same in a document whose leaf elements hold only text.
C18_OnlyValuesOfTheSenseOfTextLeaves ==
    /\ []((JustHandled(StartEl("sense")) \/ JustHandled(EndEl("sense")))
            => BuffersEmpty)
    /\ [][IF AboutToHandle(EndEl("sense"))
          THEN (current_entry.some /\ LeavesHoldOnlyText(doc, pos))
                  => AppendsValuesOfThisSense
          ELSE SenseFieldsKept]_vars

\* The second sense of an entry, which has no leaf, has closed after a
\* first one with two glosses: its meaning is empty.
C18_Witness ==
    /\ JustHandled(EndEl("sense"))
    /\ LeavesHoldOnlyText(doc, pos - 1)
    /\ BuffersEmpty
    /\ current_entry.some
    /\ current_entry.doc.meaning = <<<<"g", ";", " ", "h">>, <<>>>>
    /\ current_entry.doc.pos = <<<<"n">>, <<>>>>

----------------------------------------------------------------------------
(* C19: a Record holds the values of its entry only.                       *)

\* The positions between s and q of the StartElements named n.
Between(d, s, q, n) == {i \in (s + 1)..(q - 1) : d[i] = StartEl(n)}

\* The texts read for the leaves named n between s and q.
LeafTexts(n, d, s, q) == {ReadFor(d, i) : i \in Between(d, s, q, n)}

\* Every value of the sequence vs is in the set S.
AllIn(vs, S) == \A k \in 1..Len(vs) : vs[k] \in S

\* Every value of vs is joined of texts read for leaves named n between s
\* and q, a sense ending between s and q.
FromSenses(vs, n, d, s, q) ==
    LET texts == LeafTexts(n, d, s, q)
        most == Cardinality(Between(d, s, q, n))
    IN  \A k \in 1..Len(vs) :
            /\ \E e \in (s + 1)..(q - 1) : d[e] = EndEl("sense")
            /\ \E m \in 0..most :
                  \E xs \in [1..m -> texts] : vs[k] = Join(xs, Separator)

\* Every value of the Record r comes from a leaf or a sense between the
\* positions s and q.
FromBetween(r, d, s, q) ==
    /\ AllIn(r.id, {parse_i64(t).val : t \in LeafTexts("ent_seq", d, s, q)})
    /\ AllIn(r.word, LeafTexts("keb", d, s, q))
    /\ AllIn(r.reading, LeafTexts("reb", d, s, q))
    /\ AllIn(r.reading_romaji, {to_romaji(t) : t \in LeafTexts("reb", d, s, q)})
    /\ FromSenses(r.meaning, "gloss", d, s, q)
    /\ FromSenses(r.pos, "pos", d, s, q)
    /\ FromSenses(r.field, "field", d, s, q)

\* C19 as stated: just after every Start `entry` the Record in flight is
\* empty, and every value of a Record handed to the writer at an End `entry`
\* comes from a leaf or a sense between the Start `entry` of that entry and
\* that End `entry`; so no leaf before the first entry or between two
\* entries gets into an added Record.
C19_ValuesOfTheEntryOnly ==
    /\ [](JustHandled(StartEl("entry")) => current_entry = Some(EmptyDocument))
    /\ []((JustHandled(EndEl("entry")))
            => FromBetween(added[Len(added)], doc,
                           MatchStart(doc, pos - 1), pos - 1))

\* C19, amended: the same in a document whose leaf elements hold only text.
C19_ValuesOfTheEntryOnlyOfTextLeaves ==
    /\ [](JustHandled(StartEl("entry")) => current_entry = Some(EmptyDocument))
    /\ []((JustHandled(EndEl("entry")) /\ LeavesHoldOnlyText(doc, pos - 1))
            => FromBetween(added[Len(added)], doc,
                           MatchStart(doc, pos - 1), pos - 1))

\* An entry without any leaf that follows a form outside any entry has been
\* added: its Record is empty.
C19_Witness ==
    /\ JustHandled(EndEl("entry"))
    /\ pos = 8
    /\ doc[3] = StartEl("keb")
    /\ doc[4] = Chars(<<"a">>)
    /\ doc[6] = StartEl("entry")
    /\ added = <<EmptyDocument>>

----------------------------------------------------------------------------
(* C20: the events the loop passes over.                                   *)

\* The names that handle_start_element and handle_end_element know.
KnownTags == LeafTags \cup {"entry", "sense"}

\* The loop is about to read an event that is neither the StartElement nor
\* the EndElement of a known tag.
AboutToPassOver ==
    /\ pc = "loop"
    /\ ParserNext(doc, pos).type # "Error"
    /\ ParserNext(doc, pos).type \in {"StartElement", "EndElement"}
          => ParserNext(doc, pos).name \notin KnownTags

\* C20: a step of the loop on a StartElement or EndElement of another tag,
\* or on any other event, leaves the Record in flight, the buffers of the
\* sense, the count and the index writer as they are, and reads exactly
\* that one event.
C20_OtherEventsChangeNothing ==
    [][AboutToPassOver =>
          /\ pos' = pos + 1
          /\ UNCHANGED <<current_entry, glosses, poses, fields, count, calls,
                         added>>]_vars

\* The loop has passed over the end of a k_ele, the Record in flight holding
\* an id and a form.
C20_Witness ==
    /\ JustHandled(EndEl("k_ele"))
    /\ doc[pos - 2] = EndEl("keb")
    /\ current_entry = Some([EmptyDocument EXCEPT !.id = <<1>>,
                                                  !.word = <<<<"a">>>>])

====
